---- MODULE Spec2Model ----
(***************************************************************************)
(* Model of windows/flutter/generated_plugin_registrant.cc.                *)
(*                                                                         *)
(* RegisterPlugins(registry) is straight-line code: eight statements, each *)
(* of which evaluates registry->GetRegistrarForPlugin("<name>") into a     *)
(* temporary and passes that temporary to <Plugin>RegisterWithRegistrar.   *)
(* The registry and the eight entry points are external: the model lets    *)
(* each external call either return (a lookup returns any handle, the null *)
(* handle 0 included) or raise an error.  The file has no try/catch, so a  *)
(* raised error leaves RegisterPlugins at once.  The host may call         *)
(* RegisterPlugins again, on the same or on another registry.              *)
(*                                                                         *)
(* The registry pointer is taken to point at a live registry object.       *)
(***************************************************************************)
EXTENDS Naturals, Sequences, FiniteSets

\* ------------------------------------------------------------------ bounds
\* Calls of RegisterPlugins the host makes in one run.
MaxCalls == 2
\* Registrar handles a lookup may return are 0..MaxHandle; 0 is the null handle.
MaxHandle == 2

\* ------------------------------------------------------- the environment
Registries == {"r1", "r2"}
Handles == 0..MaxHandle
Errors == {"e1", "e2"}

\* The plugin modules the file includes (one header each).
Plugins ==
  { "FileSelectorWindows",
    "FlutterSecureStorageWindowsPlugin",
    "FlutterTimezonePluginCApi",
    "MediaKitVideoPluginCApi",
    "PermissionHandlerWindowsPlugin",
    "SimpleAnimationProgressBarPluginCApi",
    "UrlLauncherWindows",
    "VolumeControllerPluginCApi" }

\* ------------------------------------------------------------ the program
\* registry->GetRegistrarForPlugin(n)
Lookup(n) == [op |-> "lookup", name |-> n, entry |-> "-"]
\* <e>RegisterWithRegistrar(<temporary>)
CallEntry(e) == [op |-> "call", name |-> "-", entry |-> e]
\* One statement: the argument is evaluated first, then the entry point is called.
Statement(e, n) == <<Lookup(n), CallEntry(e)>>

\* Builds a body from a list of <<entry, name>> pairs (used by the variants below).
RECURSIVE StatementsOf(_)
StatementsOf(ps) ==
  IF ps = <<>> THEN <<>>
  ELSE Statement(Head(ps)[1], Head(ps)[2]) \o StatementsOf(Tail(ps))

\* Variant: the statement for UrlLauncherWindows was generated twice.
BodyDuplicated ==
  StatementsOf(<<
    <<"FileSelectorWindows", "FileSelectorWindows">>,
    <<"FlutterSecureStorageWindowsPlugin", "FlutterSecureStorageWindowsPlugin">>,
    <<"FlutterTimezonePluginCApi", "FlutterTimezonePluginCApi">>,
    <<"MediaKitVideoPluginCApi", "MediaKitVideoPluginCApi">>,
    <<"PermissionHandlerWindowsPlugin", "PermissionHandlerWindowsPlugin">>,
    <<"SimpleAnimationProgressBarPluginCApi", "SimpleAnimationProgressBarPluginCApi">>,
    <<"UrlLauncherWindows", "UrlLauncherWindows">>,
    <<"UrlLauncherWindows", "UrlLauncherWindows">>,
    <<"VolumeControllerPluginCApi", "VolumeControllerPluginCApi">> >>)

\* Variant: the statement for MediaKitVideoPluginCApi was left out.
BodySkipped ==
  StatementsOf(<<
    <<"FileSelectorWindows", "FileSelectorWindows">>,
    <<"FlutterSecureStorageWindowsPlugin", "FlutterSecureStorageWindowsPlugin">>,
    <<"FlutterTimezonePluginCApi", "FlutterTimezonePluginCApi">>,
    <<"PermissionHandlerWindowsPlugin", "PermissionHandlerWindowsPlugin">>,
    <<"SimpleAnimationProgressBarPluginCApi", "SimpleAnimationProgressBarPluginCApi">>,
    <<"UrlLauncherWindows", "UrlLauncherWindows">>,
    <<"VolumeControllerPluginCApi", "VolumeControllerPluginCApi">> >>)

\* Variant: the names of the first two lookups are exchanged.
BodyCrossedNames ==
  StatementsOf(<<
    <<"FileSelectorWindows", "FlutterSecureStorageWindowsPlugin">>,
    <<"FlutterSecureStorageWindowsPlugin", "FileSelectorWindows">>,
    <<"FlutterTimezonePluginCApi", "FlutterTimezonePluginCApi">>,
    <<"MediaKitVideoPluginCApi", "MediaKitVideoPluginCApi">>,
    <<"PermissionHandlerWindowsPlugin", "PermissionHandlerWindowsPlugin">>,
    <<"SimpleAnimationProgressBarPluginCApi", "SimpleAnimationProgressBarPluginCApi">>,
    <<"UrlLauncherWindows", "UrlLauncherWindows">>,
    <<"VolumeControllerPluginCApi", "VolumeControllerPluginCApi">> >>)

\* Variant: the last two statements are generated in the opposite order.
BodyReordered ==
  StatementsOf(<<
    <<"FileSelectorWindows", "FileSelectorWindows">>,
    <<"FlutterSecureStorageWindowsPlugin", "FlutterSecureStorageWindowsPlugin">>,
    <<"FlutterTimezonePluginCApi", "FlutterTimezonePluginCApi">>,
    <<"MediaKitVideoPluginCApi", "MediaKitVideoPluginCApi">>,
    <<"PermissionHandlerWindowsPlugin", "PermissionHandlerWindowsPlugin">>,
    <<"SimpleAnimationProgressBarPluginCApi", "SimpleAnimationProgressBarPluginCApi">>,
    <<"VolumeControllerPluginCApi", "VolumeControllerPluginCApi">>,
    <<"UrlLauncherWindows", "UrlLauncherWindows">> >>)

\* Variant: the third lookup repeats the name of the first; its handle goes to
\* the third plugin.
BodyRepeatedName ==
  StatementsOf(<<
    <<"FileSelectorWindows", "FileSelectorWindows">>,
    <<"FlutterSecureStorageWindowsPlugin", "FlutterSecureStorageWindowsPlugin">>,
    <<"FlutterTimezonePluginCApi", "FileSelectorWindows">>,
    <<"MediaKitVideoPluginCApi", "MediaKitVideoPluginCApi">>,
    <<"PermissionHandlerWindowsPlugin", "PermissionHandlerWindowsPlugin">>,
    <<"SimpleAnimationProgressBarPluginCApi", "SimpleAnimationProgressBarPluginCApi">>,
    <<"UrlLauncherWindows", "UrlLauncherWindows">>,
    <<"VolumeControllerPluginCApi", "VolumeControllerPluginCApi">> >>)

\* Variant: all eight handles are looked up first, the entry points are called
\* afterwards.
BodyCollectFirst ==
  << Lookup("FileSelectorWindows"),
     Lookup("FlutterSecureStorageWindowsPlugin"),
     Lookup("FlutterTimezonePluginCApi"),
     Lookup("MediaKitVideoPluginCApi"),
     Lookup("PermissionHandlerWindowsPlugin"),
     Lookup("SimpleAnimationProgressBarPluginCApi"),
     Lookup("UrlLauncherWindows"),
     Lookup("VolumeControllerPluginCApi"),
     CallEntry("FileSelectorWindows"),
     CallEntry("FlutterSecureStorageWindowsPlugin"),
     CallEntry("FlutterTimezonePluginCApi"),
     CallEntry("MediaKitVideoPluginCApi"),
     CallEntry("PermissionHandlerWindowsPlugin"),
     CallEntry("SimpleAnimationProgressBarPluginCApi"),
     CallEntry("UrlLauncherWindows"),
     CallEntry("VolumeControllerPluginCApi") >>

\* Variant: before the last statement the function waits for an event that
\* nothing in the file ever signals.
BodyWaiting ==
  StatementsOf(<<
    <<"FileSelectorWindows", "FileSelectorWindows">>,
    <<"FlutterSecureStorageWindowsPlugin", "FlutterSecureStorageWindowsPlugin">>,
    <<"FlutterTimezonePluginCApi", "FlutterTimezonePluginCApi">>,
    <<"MediaKitVideoPluginCApi", "MediaKitVideoPluginCApi">>,
    <<"PermissionHandlerWindowsPlugin", "PermissionHandlerWindowsPlugin">>,
    <<"SimpleAnimationProgressBarPluginCApi", "SimpleAnimationProgressBarPluginCApi">>,
    <<"UrlLauncherWindows", "UrlLauncherWindows">> >>)
  \o << [op |-> "wait", name |-> "-", entry |-> "-"] >>
  \o Statement("VolumeControllerPluginCApi", "VolumeControllerPluginCApi")

\* The body of RegisterPlugins, statement by statement.
Body ==
     Statement("FileSelectorWindows", "FileSelectorWindows")
  \o Statement("FlutterSecureStorageWindowsPlugin", "FlutterSecureStorageWindowsPlugin")
  \o Statement("FlutterTimezonePluginCApi", "FlutterTimezonePluginCApi")
  \o Statement("MediaKitVideoPluginCApi", "MediaKitVideoPluginCApi")
  \o Statement("PermissionHandlerWindowsPlugin", "PermissionHandlerWindowsPlugin")
  \o Statement("SimpleAnimationProgressBarPluginCApi", "SimpleAnimationProgressBarPluginCApi")
  \o Statement("UrlLauncherWindows", "UrlLauncherWindows")
  \o Statement("VolumeControllerPluginCApi", "VolumeControllerPluginCApi")

VARIABLES
  pc,         \* "idle", "run" (between external calls), "inplugin" (inside an
              \* entry point), "returned", "threw"
  ip,         \* index into Body of the instruction being executed
  registry,   \* the argument of the current call of RegisterPlugins
  tmp,        \* the temporary holding the result of the statement's lookup
  arg,        \* what the entry point now executing was passed
  lastRet,    \* what the registry returned from the most recent lookup
  trace,      \* the external calls of the current call of RegisterPlugins
  thrown,     \* the error an external call raised during the current call
  raised,     \* the error that left RegisterPlugins towards its caller
  invoked,    \* invoked[r][e]: entries into plugin e's entry point for registry r
  registered, \* registered[r][e]: returns of plugin e's entry point for registry r
  before,     \* registered, as it was when the current call started
  started,    \* started[r]: calls of RegisterPlugins made with registry r
  prevOps     \* the external calls of the previous call that returned

vars == <<pc, ip, registry, tmp, arg, lastRet, trace, thrown, raised,
          invoked, registered, before, started, prevOps>>

NoTmp == [reg |-> "-", name |-> "-", handle |-> 0]
NoError == [kind |-> "-", who |-> "-", err |-> "-"]
Zero == [r \in Registries |-> [e \in Plugins |-> 0]]

\* The trace with the identity of the registry left out.
Ops(t) == [i \in DOMAIN t |-> [t[i] EXCEPT !.reg = "-"]]

\* Variant: the lookups go to one process-wide registry instead of the argument.
LookupTargetGlobal == "r1"

\* The object GetRegistrarForPlugin is called on: the parameter `registry`.
LookupTarget == registry

\* Straight-line code: the next instruction is the following one.
NextIp(i) == i + 1

\* Variant: a catch-all around the body swallows the error.
AfterThrowSwallowed(e) ==
  [pc |-> "returned", raised |-> "-", registered |-> registered]

\* Variant: the registrations made so far are undone before the error leaves.
AfterThrowRolledBack(e) ==
  [pc |-> "threw", raised |-> e, registered |-> before]

\* No try/catch: an error raised by an external call leaves RegisterPlugins
\* as it is, and nothing the call did so far is undone.
AfterThrow(e) ==
  [pc |-> "threw", raised |-> e, registered |-> registered]

\* Control after instruction i has finished.
PcAfter(i) == IF NextIp(i) > Len(Body) THEN "returned" ELSE "run"

TotalStarted == started["r1"] + started["r2"]

Init ==
  /\ pc = "idle"
  /\ ip = 0
  /\ registry = "-"
  /\ tmp = NoTmp
  /\ arg = NoTmp
  /\ lastRet = NoTmp
  /\ trace = <<>>
  /\ thrown = NoError
  /\ raised = "-"
  /\ invoked = Zero
  /\ registered = Zero
  /\ before = Zero
  /\ started = [r \in Registries |-> 0]
  /\ prevOps = <<>>

\* The host calls RegisterPlugins(r).
Call(r) ==
  /\ pc \in {"idle", "returned", "threw"}
  /\ TotalStarted < MaxCalls
  /\ pc' = IF Len(Body) = 0 THEN "returned" ELSE "run"
  /\ ip' = 1
  /\ registry' = r
  /\ tmp' = NoTmp
  /\ arg' = NoTmp
  /\ lastRet' = NoTmp
  /\ trace' = <<>>
  /\ thrown' = NoError
  /\ raised' = "-"
  /\ before' = registered
  /\ started' = [started EXCEPT ![r] = @ + 1]
  /\ prevOps' = IF pc = "returned" THEN Ops(trace) ELSE prevOps
  /\ UNCHANGED <<invoked, registered>>

LookupEvent == [op |-> "lookup", reg |-> LookupTarget, name |-> Body[ip].name, entry |-> "-"]

\* registry->GetRegistrarForPlugin(name) returns handle h.
LookupReturn(h) ==
  /\ pc = "run"
  /\ Body[ip].op = "lookup"
  /\ trace' = Append(trace, LookupEvent)
  /\ lastRet' = [reg |-> LookupTarget, name |-> Body[ip].name, handle |-> h]
  /\ tmp' = lastRet'
  /\ ip' = NextIp(ip)
  /\ pc' = PcAfter(ip)
  /\ UNCHANGED <<registry, arg, thrown, raised, invoked, registered, before,
                 started, prevOps>>

\* registry->GetRegistrarForPlugin(name) raises e.
LookupThrow(e) ==
  /\ pc = "run"
  /\ Body[ip].op = "lookup"
  /\ trace' = Append(trace, LookupEvent)
  /\ thrown' = [kind |-> "lookup", who |-> Body[ip].name, err |-> e]
  /\ pc' = AfterThrow(e).pc
  /\ raised' = AfterThrow(e).raised
  /\ registered' = AfterThrow(e).registered
  /\ UNCHANGED <<ip, registry, tmp, arg, lastRet, invoked, before, started, prevOps>>

\* <Plugin>RegisterWithRegistrar(<temporary>) is entered.
Invoke ==
  /\ pc = "run"
  /\ Body[ip].op = "call"
  /\ arg' = tmp
  /\ trace' = Append(trace, [op |-> "enter", reg |-> tmp.reg, name |-> tmp.name,
                             entry |-> Body[ip].entry])
  /\ invoked' = [invoked EXCEPT ![registry][Body[ip].entry] = @ + 1]
  /\ pc' = "inplugin"
  /\ UNCHANGED <<ip, registry, tmp, lastRet, thrown, raised, registered, before,
                 started, prevOps>>

\* The entry point returns; the statement ends and its temporary with it.
EntryReturn ==
  /\ pc = "inplugin"
  /\ trace' = Append(trace, [op |-> "exit", reg |-> "-", name |-> "-",
                             entry |-> Body[ip].entry])
  /\ registered' = [registered EXCEPT ![registry][Body[ip].entry] = @ + 1]
  /\ tmp' = NoTmp
  /\ arg' = NoTmp
  /\ ip' = NextIp(ip)
  /\ pc' = PcAfter(ip)
  /\ UNCHANGED <<registry, lastRet, thrown, raised, invoked, before, started, prevOps>>

\* The entry point raises e.
EntryThrow(e) ==
  /\ pc = "inplugin"
  /\ thrown' = [kind |-> "entry", who |-> Body[ip].entry, err |-> e]
  /\ pc' = AfterThrow(e).pc
  /\ raised' = AfterThrow(e).raised
  /\ registered' = AfterThrow(e).registered
  /\ UNCHANGED <<ip, registry, tmp, arg, lastRet, trace, invoked, before, started,
                 prevOps>>

Next ==
  \/ \E r \in Registries : Call(r)
  \/ \E h \in Handles : LookupReturn(h)
  \/ \E e \in Errors : LookupThrow(e)
  \/ Invoke
  \/ EntryReturn
  \/ \E e \in Errors : EntryThrow(e)

Spec == Init /\ [][Next]_vars

\* The steps of a call in which every external call returns.
Progress ==
  \/ \E h \in Handles : LookupReturn(h)
  \/ Invoke
  \/ EntryReturn

NextReturning ==
  \/ \E r \in Registries : Call(r)
  \/ Progress

\* Every external call returns, and the single thread running RegisterPlugins
\* keeps running.
LiveSpec == Init /\ [][NextReturning]_vars /\ WF_vars(Progress)

\* ------------------------------------------------------------- properties
\* The order of registration the documentation of the file states.
ClaimedOrder ==
  << "FileSelectorWindows",
     "FlutterSecureStorageWindowsPlugin",
     "FlutterTimezonePluginCApi",
     "MediaKitVideoPluginCApi",
     "PermissionHandlerWindowsPlugin",
     "SimpleAnimationProgressBarPluginCApi",
     "UrlLauncherWindows",
     "VolumeControllerPluginCApi" >>

ClaimedSet == {ClaimedOrder[i] : i \in DOMAIN ClaimedOrder}

\* Position of plugin p in the stated order.
IndexOf(p) == CHOOSE i \in DOMAIN ClaimedOrder : ClaimedOrder[i] = p

IsEntryEvent(ev) == ev.op \in {"enter", "exit"}
EntryEvents == SelectSeq(trace, IsEntryEvent)

\* Events of kind o in the current call.
At(o) == {i \in DOMAIN trace : trace[i].op = o}
EnterCount(e) == Cardinality({i \in At("enter") : trace[i].entry = e})
ExitCount(e) == Cardinality({i \in At("exit") : trace[i].entry = e})
InCall == pc \in {"run", "inplugin"}

\* C1: a call of RegisterPlugins that runs to completion has entered each of
\* the eight plugin entry points exactly once, and no other entry point.
C1_EachEntryExactlyOnce ==
  pc = "returned" =>
    /\ \A e \in ClaimedSet : EnterCount(e) = 1
    /\ \A i \in At("enter") : trace[i].entry \in ClaimedSet

C1_Witness ==
  /\ pc = "returned"
  /\ Cardinality(At("enter")) = 8
  /\ started[registry] = 1

\* C2: every entry point is passed the handle the passed registry returned
\* for that plugin's own name: the lookup just before it was made on the
\* argument registry with the plugin's name, and its result is the argument.
C2_OwnRegistrar ==
  /\ \A i \in At("enter") :
       /\ trace[i].name = trace[i].entry
       /\ trace[i].reg = registry
       /\ i > 1
       /\ trace[i - 1] = [op |-> "lookup", reg |-> registry,
                          name |-> trace[i].entry, entry |-> "-"]
  /\ pc = "inplugin" =>
       /\ arg = lastRet
       /\ arg.name = trace[Len(trace)].entry
       /\ arg.reg = registry

C2_Witness ==
  /\ pc = "inplugin"
  /\ registry = "r2"
  /\ trace[Len(trace)].entry = "VolumeControllerPluginCApi"
  /\ arg = [reg |-> "r2", name |-> "VolumeControllerPluginCApi", handle |-> 2]

\* C3 as stated: over any sequence of calls of RegisterPlugins, each plugin's
\* entry point is entered at most once per registry.
C3_AtMostOncePerRegistry ==
  \A r \in Registries : \A e \in Plugins : invoked[r][e] <= 1

\* C3 amended: within one call each entry point is entered at most once, so
\* over a run it is entered at most as often as RegisterPlugins was called
\* with that registry; a repeated call registers again.
C3_AtMostOncePerCall ==
  /\ \A e \in Plugins : EnterCount(e) <= 1
  /\ \A r \in Registries : \A e \in Plugins : invoked[r][e] <= started[r]

C3_Witness ==
  /\ pc = "returned"
  /\ started[registry] = 2
  /\ \A e \in Plugins : invoked[registry][e] = 2

\* C4: when every external call returns, a call of RegisterPlugins returns,
\* and when it returns every instruction has run once: all eight plugins are
\* registered and none is left for later.
C4_Terminates ==
  /\ InCall ~> (pc = "returned")
  /\ [](pc = "returned" =>
          /\ \A e \in ClaimedSet : ExitCount(e) = 1
          /\ \A e \in ClaimedSet : registered[registry][e] = before[registry][e] + 1
          /\ Len(trace) = 24)

C4_Witness ==
  /\ pc = "returned"
  /\ \A e \in ClaimedSet : registered[registry][e] = before[registry][e] + 1

\* C5: an error raised by an external call reaches the caller unchanged, the
\* failed call is the last external call RegisterPlugins made, and RegisterPlugins
\* raises no error of its own (a null handle is passed on like any other).
C5_ErrorPropagates ==
  /\ thrown # NoError =>
       /\ pc = "threw"
       /\ raised = thrown.err
       /\ trace # <<>>
       /\ trace[Len(trace)].op = (IF thrown.kind = "lookup" THEN "lookup" ELSE "enter")
       /\ thrown.who = (IF thrown.kind = "lookup" THEN trace[Len(trace)].name
                        ELSE trace[Len(trace)].entry)
  /\ pc = "threw" => thrown # NoError
  /\ thrown = NoError => raised = "-"

C5_Witness ==
  /\ pc = "threw"
  /\ raised = "e2"
  /\ thrown = [kind |-> "entry", who |-> "MediaKitVideoPluginCApi", err |-> "e2"]

\* C6: the entry points are entered in the stated order, each only after the
\* one before it has returned, so the plugins registered by the call so far
\* are always a prefix of the stated order.
C6_FixedOrder ==
  /\ Len(EntryEvents) <= 16
  /\ \A i \in DOMAIN EntryEvents :
       /\ EntryEvents[i].op = (IF i % 2 = 1 THEN "enter" ELSE "exit")
       /\ EntryEvents[i].entry = ClaimedOrder[(i + 1) \div 2]
  /\ \E k \in 0..8 :
       {e \in ClaimedSet : ExitCount(e) > 0} = {ClaimedOrder[j] : j \in 1..k}

C6_Witness ==
  /\ pc = "inplugin"
  /\ trace[Len(trace)].entry = "UrlLauncherWindows"
  /\ {e \in ClaimedSet : ExitCount(e) > 0} = {ClaimedOrder[j] : j \in 1..6}

\* C7: a call touches nothing but the registry it is given: every lookup is
\* made on the argument, the counts of every other registry stay as they were,
\* a completed call made exactly eight lookups and eight entry-point calls,
\* and it issued the same calls as the completed call before it.
C7_OnlyThePassedRegistry ==
  /\ \A i \in At("lookup") : trace[i].reg = registry
  /\ \A r \in Registries \ {registry} : registered[r] = before[r]
  /\ pc = "returned" =>
       /\ Cardinality(At("lookup")) = 8
       /\ Cardinality(At("enter")) = 8
       /\ Cardinality(At("exit")) = 8
       /\ Len(trace) = 24
       /\ prevOps # <<>> => Ops(trace) = prevOps

C7_Witness ==
  /\ pc = "returned"
  /\ registry = "r2"
  /\ started["r1"] = 1
  /\ prevOps # <<>>
  /\ Ops(trace) = prevOps

\* C8: lookups and registrations alternate: a lookup is the first call or
\* follows the return of the previous entry point, the call after a lookup is
\* the entry of the plugin of that name, an entry point is entered right after
\* a lookup, and while plugin k's entry point runs exactly k lookups were made.
C8_Alternation ==
  /\ \A i \in At("lookup") :
       /\ i = 1 \/ trace[i - 1].op = "exit"
       /\ i < Len(trace) =>
            trace[i + 1].op = "enter" /\ trace[i + 1].entry = trace[i].name
  /\ \A i \in At("enter") : i > 1 /\ trace[i - 1].op = "lookup"
  /\ pc = "inplugin" =>
       /\ Cardinality(At("lookup")) = Cardinality(At("exit")) + 1
       /\ Cardinality(At("lookup")) = IndexOf(trace[Len(trace)].entry)

C8_Witness ==
  /\ pc = "inplugin"
  /\ Cardinality(At("lookup")) = 5
  /\ Cardinality(At("exit")) = 4

\* C9: after a failure at the k-th plugin the first k-1 plugins are still
\* registered, the later ones were neither looked up nor entered, and nothing
\* else changed: the call registered exactly a proper prefix of the order.
C9_NoRollback ==
  thrown # NoError =>
    LET k == IndexOf(thrown.who) IN
      /\ k \in 1..8
      /\ \A j \in 1..8 :
           registered[registry][ClaimedOrder[j]] =
             before[registry][ClaimedOrder[j]] + (IF j < k THEN 1 ELSE 0)
      /\ \A j \in 1..8 : ExitCount(ClaimedOrder[j]) = (IF j < k THEN 1 ELSE 0)
      /\ \A i \in At("lookup") : IndexOf(trace[i].name) <= k
      /\ \A i \in At("enter") : IndexOf(trace[i].entry) <= k

C9_Witness ==
  /\ pc = "threw"
  /\ thrown.kind = "lookup"
  /\ thrown.who = "PermissionHandlerWindowsPlugin"
  /\ started[registry] = 2
  /\ registered[registry]["MediaKitVideoPluginCApi"] = 2
  /\ registered[registry]["PermissionHandlerWindowsPlugin"] = 1

\* C10: within one call the names looked up are pairwise distinct, and no two
\* entry points are handed the registrar of the same name.
C10_DistinctNames ==
  /\ \A i, j \in At("lookup") : i # j => trace[i].name # trace[j].name
  /\ \A i, j \in At("enter") : i # j => trace[i].name # trace[j].name

C10_Witness ==
  /\ pc = "returned"
  /\ {trace[i].name : i \in At("lookup")} = ClaimedSet
  /\ {trace[i].name : i \in At("enter")} = ClaimedSet

====
